---- MODULE Spec2Model ----
(***************************************************************************)
(* Model of main.py of pond_temp_sender: the WLAN connect loop, the        *)
(* one-wire discovery loop and the acquisition / aggregation / send cycle. *)
(*                                                                         *)
(* Temperatures are Python floats in the program.  They are modelled as    *)
(* exact rationals <<numerator, denominator>> (denominator > 0, lowest     *)
(* terms), so that sum(values) / len(values) is a real division and not    *)
(* an integer one.  Python's None and the empty dict {} are the empty      *)
(* function << >>.  The "time" field of the records (get_epoch_time) is    *)
(* left out of the records: no statement checked here reads it.            *)
(***************************************************************************)
EXTENDS Integers, Sequences, FiniteSets, TLC

(* ---------------- bounds of the model ---------------- *)
\* longest device list a bus scan returns
MaxDevices == 2
\* value at which retry_count stops growing
MaxRetry == 3

(* ---------------- configuration constants (main.py 12-37) ---------------- *)
LOW_ALARM_TEMP == 20
HIGH_ALARM_TEMP == 25
REF_TEMP == 27
SENSE_PIN == 16
TYPE_HARDWARE == "Hardware"
None == << >>

\* the addresses of the three devices of SENSOR_PLACEMENTS
RomPump == <<40, 253, 147, 223, 13, 0, 0, 84>>
RomPondA == <<40, 37, 208, 87, 4, 225, 60, 113>>
RomPondB == <<40, 126, 157, 87, 4, 225, 60, 162>>
Roms == {RomPump, RomPondA, RomPondB}

SENSOR_PLACEMENTS ==
    [h \in {"28fd93df0d000054", "2825d05704e13c71", "287e9d5704e13ca2"} |->
        CASE h = "28fd93df0d000054" -> "Pump housing"
          [] h = "2825d05704e13c71" -> "Pond"
          [] h = "287e9d5704e13ca2" -> "Pond"]

(* ---------------- inputs ---------------- *)
\* temperatures a device may report, in degrees Celsius: below, on and above
\* the two alarm thresholds
Temps == {19, 20, 25, 26}
\* configuration bytes of a DS18x20 scratchpad (9, 10, 11, 12 bit)
ConfigBytes == {31, 63, 95, 127}
\* temperature the onboard sensor reports (REF_TEMP at 0.706 V)
OnboardTemps == {REF_TEMP}

(* ---------------- rationals ---------------- *)
Abs(n) == IF n < 0 THEN -n ELSE n

RECURSIVE GCD(_, _)
GCD(a, b) == IF b = 0 THEN a ELSE GCD(b, a % b)

Rat(n, d) == LET g == GCD(Abs(n), d) IN <<n \div g, d \div g>>
Lt(a, b) == a[1] * b[2] < b[1] * a[2]
Le(a, b) == a[1] * b[2] <= b[1] * a[2]
RatAdd(a, b) == Rat(a[1] * b[2] + b[1] * a[2], a[2] * b[2])
RatDiv(a, n) == Rat(a[1], a[2] * n)

\* the smaller and the greater of two rationals
MinR(a, b) == IF a[1] * b[2] <= b[1] * a[2] THEN a ELSE b
MaxR(a, b) == IF a[1] * b[2] >= b[1] * a[2] THEN a ELSE b

RECURSIVE SumSeq(_)
SumSeq(s) == IF s = << >> THEN Rat(0, 1) ELSE RatAdd(s[1], SumSeq(Tail(s)))

(* ---------------- helpers of main.py ---------------- *)
\* dictionary.get(key, None); a value that is found is boxed as <<value>>, so
\* that it can be told from None
get_value_from_dict(dictionary, key) ==
    IF key \in DOMAIN dictionary THEN <<dictionary[key]>> ELSE None

\* str() as applied to the result of get_value_from_dict
Str(v) == IF v = None THEN "None" ELSE v[1]

HexDigits == <<"0", "1", "2", "3", "4", "5", "6", "7", "8", "9",
               "a", "b", "c", "d", "e", "f">>

RECURSIVE hexlify(_)
hexlify(bytes) ==
    IF bytes = << >> THEN ""
    ELSE HexDigits[(bytes[1] \div 16) + 1] \o HexDigits[(bytes[1] % 16) + 1]
         \o hexlify(Tail(bytes))

rom_to_hex(rom) == hexlify(rom)

\* flasher(led, delay_ms, times): the state of the led when it returns
RECURSIVE flasher(_, _)
flasher(l, times) == IF times > 0 THEN flasher("on", times - 1) ELSE l

\* x & 3 on a byte
And3(x) == x % 4
\* sensor.read_scratch(rom)[4] & 0x60 >> 5 : >> binds tighter than &, so the
\* mask is 0x60 >> 5 = 3
get_resolution(configByte) == And3(configByte)

\* the alarm test with the thresholds themselves alarmed
IsAlarm_inclusive(tempC) ==
    Le(tempC, Rat(LOW_ALARM_TEMP, 1)) \/ Le(Rat(HIGH_ALARM_TEMP, 1), tempC)

\* the alarm test of external_sensors
IsAlarm(tempC) ==
    Lt(tempC, Rat(LOW_ALARM_TEMP, 1)) \/ Lt(Rat(HIGH_ALARM_TEMP, 1), tempC)

\* the Measurement built by external_sensors for one rom
Measurement(rom, tempC, res1, res2) ==
    [type |-> TYPE_HARDWARE,
     value |-> tempC,
     sensor |-> rom_to_hex(rom),
     location |-> Str(get_value_from_dict(SENSOR_PLACEMENTS, rom_to_hex(rom))),
     resolution_raw |-> res1,
     resolution_bits |-> res2 * 9 + 9,
     alarm |-> IsAlarm(tempC)]

\* the filter without its condition value: every entry that has the key
Matches_anyValue(entry, condition_key, condition_val) ==
    condition_key \in DOMAIN entry

\* entry.get(condition_key) == condition_val, for a condition_val that is not None
Matches(entry, condition_key, condition_val) ==
    condition_key \in DOMAIN entry /\ entry[condition_key] = condition_val

RECURSIVE ValuesOf(_, _, _, _)
ValuesOf(json_array, key, condition_key, condition_val) ==
    IF json_array = << >> THEN << >>
    ELSE LET rest == ValuesOf(Tail(json_array), key, condition_key, condition_val)
         IN IF Matches(json_array[1], condition_key, condition_val)
            THEN <<json_array[1][key]>> \o rest
            ELSE rest

avg_from_json(json_array, key, condition_key, condition_val) ==
    LET values == ValuesOf(json_array, key, condition_key, condition_val)
    IN IF values # << >> THEN RatDiv(SumSeq(values), Len(values)) ELSE Rat(0, 1)

\* ujson.dumps and str.encode: the text of the list and the bytes of the text
dumps(obj) == [text |-> obj]
encode(s) == [bytes |-> s]

\* init_sensor(pin_number): the DS18X20 object on the one-wire bus of the pin
init_sensor(pin_number) == [bus |-> pin_number]

\* truth value of a list or None
Truthy(x) == x # None


\* loops that give up at once
WlanLoopCond_giveUp(connected) == FALSE
ScanLoopCond_giveUp(r) == FALSE

\* the loop tests of connect_to_wlan, of the discovery loop and of the cycle loop
WlanLoopCond(connected) == ~connected
ScanLoopCond(r) == ~Truthy(r)
\* while wlan and socket and roms: the wlan object and the socket module are truthy
CycleLoopCond(r) == Truthy(r)

\* insertion at the head of the list
ListAppend_atHead(list, item) == <<item>> \o list

\* list.append
ListAppend(list, item) == Append(list, item)

\* a maximum that follows the latest average
NewMax_lastWins(cmax, avg) == avg

\* a maximum that is seeded and never raised, and extrema recomputed each cycle
NewMax_seedOnly(cmax, avg) == IF cmax = None THEN avg ELSE cmax
NewMin_perCycle(cmax, cmin, avg) == avg

\* lines 192-199: the lifetime maximum and minimum after a cycle's average
NewMax(cmax, avg) ==
    IF cmax = None THEN avg ELSE IF Lt(cmax, avg) THEN avg ELSE cmax
\* a minimum lowered without the comparison against the stored one
NewMin_unguarded(cmax, cmin, avg) ==
    IF cmax = None THEN avg ELSE IF Lt(avg, cmax) THEN avg ELSE cmin
NewMin(cmax, cmin, avg) ==
    IF cmax = None THEN avg ELSE IF Lt(avg, cmin) THEN avg ELSE cmin

\* a send that returns without a datagram leaving
sendto_nothing(out, data, address) == out

\* sock.sendto(data, address) returning normally: one datagram leaves
sendto(out, data, address) == Append(out, [data |-> data, address |-> address])

\* an except clause that ends main(), one that connects again and one that
\* goes back to the discovery
AfterExcept_exit == "done"
AfterExcept_reconnect == "wlan_connect"
AfterExcept_rescan == "scan_test"

\* where control goes after the bare except clause (pass)
AfterExcept == "sleep"

\* OnboardTemp.get_reading: the sample and the lifetime extrema
get_reading(ob, t) ==
    [current_temp |-> t,
     maximum |-> IF ob.maximum = None \/ Lt(ob.maximum, t) THEN t ELSE ob.maximum,
     minimum |-> IF ob.minimum = None \/ Lt(t, ob.minimum) THEN t ELSE ob.minimum]

BROADCAST_ADDR == <<"10.81.1.255", 5007>>

(* ---------------- state ---------------- *)
VARIABLES
    pc,                \* position of main()
    led,               \* the indicator: "on" or "off"
    linkUp,            \* what wlan.isconnected() answers
    connectCount,      \* number of wlan.connect requests issued
    retry_count,       \* local of connect_to_wlan
    ds_sensor,         \* the DS18X20 object of init_sensor, None before
    roms,              \* device list of the last scan, None before
    onboard,           \* the OnboardTemp object, None before it is built
    c_max, c_min,      \* lifetime extrema of the group average
    summary,           \* the last summary record, {} before
    measures,          \* the batch being built (local of external_sensors, then of main)
    idx,               \* position of "for rom in roms"
    average_pond_temp, \* local of main
    json_data,         \* local of main
    convCount,         \* convert_temp broadcasts of the current cycle
    waited,            \* the 750 ms wait of the current cycle has elapsed
    sent,              \* datagrams sent in the current cycle
    reads,             \* temperatures read in the current cycle, in read order
    raisedAt,          \* the call that raised in the current cycle, "none" if none
    pre_max, pre_min,  \* c_max and c_min when the current cycle began
    avg_hi, avg_lo,    \* greatest and least group average computed so far, None before
    configByte,        \* the scratchpad byte get_resolution is applied to
    resolution         \* what get_resolution returned for it, None before

wlanVars == <<linkUp, connectCount, retry_count>>
aggVars == <<c_max, c_min, summary>>
cycVars == <<measures, idx, average_pond_temp, json_data, convCount, waited, sent>>
histVars == <<reads, raisedAt, pre_max, pre_min>>
avgVars == <<avg_hi, avg_lo>>
resVars == <<configByte, resolution>>
auxVars == <<avgVars, resVars>>
vars == <<pc, led, ds_sensor, roms, onboard, wlanVars, aggVars, cycVars, histVars,
          auxVars>>

\* module level (led.off()) up to the call of main()
InitState ==
    /\ led = "off"
    /\ linkUp = FALSE
    /\ connectCount = 0
    /\ retry_count = 0
    /\ ds_sensor = None
    /\ roms = None
    /\ onboard = None
    /\ c_max = None
    /\ c_min = None
    /\ summary = << >>
    /\ measures = << >>
    /\ idx = 0
    /\ average_pond_temp = None
    /\ json_data = None
    /\ convCount = 0
    /\ waited = FALSE
    /\ sent = << >>
    /\ reads = << >>
    /\ raisedAt = "none"
    /\ pre_max = None
    /\ pre_min = None
    /\ avg_hi = None
    /\ avg_lo = None
    /\ resolution = None

Init ==
    /\ pc = "main_start"
    /\ configByte = 0
    /\ InitState

(* ---------------- main(), lines 146-156 ---------------- *)
Main_Start ==
    /\ pc = "main_start"
    /\ led' = "on"
    /\ pc' = "wlan_begin"
    /\ UNCHANGED <<ds_sensor, roms, onboard, wlanVars, aggVars, cycVars, histVars, auxVars>>

(* ---------------- connect_to_wlan, lines 60-79 ---------------- *)
\* flasher(led, 5, 10); retry_count = 1; wlan = WLAN(STA_IF); wlan.active(True)
Wlan_Begin ==
    /\ pc = "wlan_begin"
    /\ led' = flasher(led, 10)
    /\ retry_count' = 1
    /\ pc' = "wlan_connect"
    /\ UNCHANGED <<ds_sensor, roms, onboard, linkUp, connectCount, aggVars, cycVars, histVars, auxVars>>

\* wlan.connect(ssid, password)
Wlan_Connect ==
    /\ pc = "wlan_connect"
    /\ connectCount' = connectCount + 1
    /\ pc' = "wlan_poll"
    /\ UNCHANGED <<led, ds_sensor, roms, onboard, linkUp, retry_count, aggVars, cycVars, histVars, auxVars>>

\* while not wlan.isconnected(): ... ; return wlan
Wlan_Poll ==
    /\ pc = "wlan_poll"
    /\ pc' = IF WlanLoopCond(linkUp) THEN "wlan_retry" ELSE "sock_setup"
    /\ UNCHANGED <<led, ds_sensor, roms, onboard, wlanVars, aggVars, cycVars, histVars, auxVars>>

\* a loop body that issues the connect request again
Wlan_Retry_reconnect ==
    /\ pc = "wlan_retry"
    /\ led' = flasher(led, 20)
    /\ retry_count' = IF retry_count < MaxRetry THEN retry_count + 1 ELSE retry_count
    /\ connectCount' = connectCount + 1
    /\ pc' = "wlan_poll"
    /\ UNCHANGED <<ds_sensor, roms, onboard, linkUp, aggVars, cycVars, histVars, auxVars>>

\* flasher(led, 20, 20); retry_count += 1; time.sleep(5)
Wlan_Retry ==
    /\ pc = "wlan_retry"
    /\ led' = flasher(led, 20)
    /\ retry_count' = IF retry_count < MaxRetry THEN retry_count + 1 ELSE retry_count
    /\ pc' = "wlan_poll"
    /\ UNCHANGED <<ds_sensor, roms, onboard, linkUp, connectCount, aggVars, cycVars, histVars, auxVars>>

\* the access point: association completes or the link drops, once a connect
\* request has been issued.  After connect_to_wlan has returned the program
\* never asks for the link state again: a link lost later shows as a sendto
\* that raises.
LinkChange ==
    /\ pc \in {"wlan_poll", "wlan_retry"}
    /\ linkUp' = ~linkUp
    /\ UNCHANGED <<pc, led, ds_sensor, roms, onboard, connectCount, retry_count,
                   aggVars, cycVars, histVars, auxVars>>

(* ---------------- main(), lines 157-175 ---------------- *)
\* wlan = connect_to_wlan(...): the call is over and its local retry_count
\* with it; sock = socket.socket(...); sock.setsockopt(...)
Sock_Setup ==
    /\ pc = "sock_setup"
    /\ retry_count' = 0
    /\ pc' = "scan_test"
    /\ UNCHANGED <<led, ds_sensor, roms, onboard, linkUp, connectCount,
                   aggVars, cycVars, histVars, auxVars>>

\* while not roms:
Scan_Test ==
    /\ pc = "scan_test"
    /\ pc' = IF ScanLoopCond(roms) THEN "scan" ELSE "onboard_setup"
    /\ UNCHANGED <<led, ds_sensor, roms, onboard, wlanVars, aggVars, cycVars, histVars, auxVars>>

IsScanResult(r) ==
    /\ Len(r) <= MaxDevices
    /\ \A a, b \in 1..Len(r) : a # b => r[a] # r[b]

ScanResults ==
    {r \in UNION {[1..n -> Roms] : n \in 0..MaxDevices} : IsScanResult(r)}

\* ds_sensor = init_sensor(SENSE_PIN); roms = ds_sensor.scan()
Scan ==
    /\ pc = "scan"
    /\ ds_sensor' = init_sensor(SENSE_PIN)
    /\ \E r \in ScanResults : roms' = r
    /\ pc' = "scan_test"
    /\ UNCHANGED <<led, onboard, wlanVars, aggVars, cycVars, histVars, auxVars>>

\* onboard_temp_sensor = OnboardTemp(...)
Onboard_Setup ==
    /\ pc = "onboard_setup"
    /\ onboard' = [current_temp |-> None, maximum |-> None, minimum |-> None]
    /\ pc' = "loop_test"
    /\ UNCHANGED <<led, ds_sensor, roms, wlanVars, aggVars, cycVars, histVars, auxVars>>

\* while wlan and socket and roms:
Loop_Test ==
    /\ pc = "loop_test"
    /\ pc' = IF CycleLoopCond(roms) THEN "c_led_off" ELSE "done"
    /\ UNCHANGED <<led, ds_sensor, roms, onboard, wlanVars, aggVars, cycVars, histVars, auxVars>>

(* ---------------- the cycle, lines 176-222 ---------------- *)
\* an exception leaves the try block for the except clause
Raise(call) ==
    /\ pc' = "except"
    /\ raisedAt' = call

\* try: led.off().  A cycle begins: c_max and c_min are noted.
C_LedOff ==
    /\ pc = "c_led_off"
    /\ led' = "off"
    /\ pc' = "c_convert"
    /\ raisedAt' = "none"
    /\ pre_max' = c_max
    /\ pre_min' = c_min
    /\ UNCHANGED <<ds_sensor, roms, onboard, wlanVars, aggVars, cycVars, reads,
                   auxVars>>

\* ds_sensor.convert_temp()
C_Convert ==
    /\ pc = "c_convert"
    /\ \/ /\ convCount' = convCount + 1
          /\ pc' = "c_wait"
          /\ UNCHANGED raisedAt
       \/ /\ Raise("convert_temp")
          /\ UNCHANGED convCount
    /\ UNCHANGED <<led, ds_sensor, roms, onboard, wlanVars, aggVars, measures, idx,
                   average_pond_temp, json_data, waited, sent,
                   reads, pre_max, pre_min, auxVars>>

\* a cycle that goes on to the reads without the conversion wait
C_Wait_noDelay ==
    /\ pc = "c_wait"
    /\ pc' = "ext_enter"
    /\ UNCHANGED <<led, ds_sensor, roms, onboard, wlanVars, aggVars, cycVars, histVars,
                   auxVars>>

\* time.sleep_ms(750)
C_Wait ==
    /\ pc = "c_wait"
    /\ waited' = TRUE
    /\ pc' = "ext_enter"
    /\ UNCHANGED <<led, ds_sensor, roms, onboard, wlanVars, aggVars, measures, idx,
                   average_pond_temp, json_data, convCount, sent, histVars, auxVars>>

\* external_sensors: measures = []
Ext_Enter ==
    /\ pc = "ext_enter"
    /\ measures' = << >>
    /\ idx' = 1
    /\ pc' = "ext_loop"
    /\ UNCHANGED <<led, ds_sensor, roms, onboard, wlanVars, aggVars,
                   average_pond_temp, json_data, convCount, waited, sent, histVars, auxVars>>

\* one pass of "for rom in roms": read_temp, the alarm test, the two
\* read_scratch of get_resolution, measures.append
Ext_Iter ==
    /\ pc = "ext_loop"
    /\ idx <= Len(roms)
    /\ \/ /\ Raise("read_temp")
          /\ UNCHANGED <<reads, measures, idx>>
       \/ \E t \in Temps :
            /\ reads' = Append(reads, Rat(t, 1))
            /\ \/ /\ Raise("read_scratch")
                  /\ UNCHANGED <<measures, idx>>
               \/ \E b \in ConfigBytes :
                    /\ measures' = ListAppend(measures,
                           Measurement(roms[idx], Rat(t, 1),
                                       get_resolution(b), get_resolution(b)))
                    /\ idx' = idx + 1
                    /\ UNCHANGED <<pc, raisedAt>>
    /\ UNCHANGED <<led, ds_sensor, roms, onboard, wlanVars, aggVars,
                   average_pond_temp, json_data, convCount, waited, sent,
                   pre_max, pre_min, auxVars>>

\* return measures; measures = external_sensors(roms, ds_sensor)
Ext_Return ==
    /\ pc = "ext_loop"
    /\ idx > Len(roms)
    /\ pc' = "c_onboard"
    /\ UNCHANGED <<led, ds_sensor, roms, onboard, wlanVars, aggVars, cycVars, histVars, auxVars>>

\* onboard_temp_sensor.get_reading(verbose=False);
\* measures.append({"location": "onboard", ...})
C_Onboard ==
    /\ pc = "c_onboard"
    /\ \/ /\ Raise("get_reading")
          /\ UNCHANGED <<onboard, measures>>
       \/ \E t \in OnboardTemps :
            /\ onboard' = get_reading(onboard, Rat(t, 1))
            /\ measures' = ListAppend(measures,
                   [location |-> "onboard", type |-> TYPE_HARDWARE,
                    sensor |-> "default", value |-> onboard'.current_temp,
                    max_c |-> onboard'.maximum, min_C |-> onboard'.minimum])
            /\ pc' = "c_avg"
            /\ UNCHANGED raisedAt
    /\ UNCHANGED <<led, ds_sensor, roms, wlanVars, aggVars, idx,
                   average_pond_temp, json_data, convCount, waited, sent,
                   reads, pre_max, pre_min, auxVars>>

\* average_pond_temp = avg_from_json(measures, "value", "location", "Pond");
\* measures.append({... "type": "avg_temp" ...})
C_Avg ==
    /\ pc = "c_avg"
    /\ \/ /\ Raise("avg_from_json")
          /\ UNCHANGED <<average_pond_temp, measures>>
       \/ LET avg == avg_from_json(measures, "value", "location", "Pond")
          IN /\ average_pond_temp' = avg
             /\ measures' = ListAppend(measures,
                    [location |-> "Pond", value |-> avg, type |-> "avg_temp"])
             /\ pc' = "c_minmax"
             /\ UNCHANGED raisedAt
    /\ UNCHANGED <<led, ds_sensor, roms, onboard, wlanVars, aggVars, idx, json_data,
                   convCount, waited, sent, reads, pre_max, pre_min, auxVars>>

\* lines 192-207, which call nothing that can fail:
\* if c_max is None: ... else: ...;
\* measures.append({... "type": "max"}); measures.append({... "type": "min"});
\* summary = {...}; measures.append(summary)
C_MinMax ==
    /\ pc = "c_minmax"
    /\ c_max' = NewMax(c_max, average_pond_temp)
    /\ c_min' = NewMin(c_max, c_min, average_pond_temp)
    /\ summary' = [type |-> "summary", location |-> "Pond",
                   avg |-> average_pond_temp, min |-> c_min', max |-> c_max']
    /\ measures' = ListAppend(ListAppend(ListAppend(measures,
           [location |-> "Pond", value |-> c_max', type |-> "max"]),
           [location |-> "Pond", value |-> c_min', type |-> "min"]),
           summary')
    /\ avg_hi' = (IF avg_hi = None THEN average_pond_temp
                  ELSE MaxR(avg_hi, average_pond_temp))
    /\ avg_lo' = (IF avg_lo = None THEN average_pond_temp
                  ELSE MinR(avg_lo, average_pond_temp))
    /\ pc' = "c_dumps"
    /\ UNCHANGED <<led, ds_sensor, roms, onboard, wlanVars, idx,
                   average_pond_temp, json_data, convCount, waited, sent, histVars,
                   resVars>>

\* json_data = ujson.dumps(measures)
C_Dumps ==
    /\ pc = "c_dumps"
    /\ \/ /\ Raise("dumps")
          /\ UNCHANGED json_data
       \/ /\ json_data' = dumps(measures)
          /\ pc' = "c_led_on"
          /\ UNCHANGED raisedAt
    /\ UNCHANGED <<led, ds_sensor, roms, onboard, wlanVars, aggVars, measures, idx,
                   average_pond_temp, convCount, waited, sent,
                   reads, pre_max, pre_min, auxVars>>

\* an indicator that is left off at this place
C_LedOn_stayOff ==
    /\ pc = "c_led_on"
    /\ led' = "off"
    /\ pc' = "c_sendto"
    /\ UNCHANGED <<ds_sensor, roms, onboard, wlanVars, aggVars, cycVars, histVars,
                   auxVars>>

\* led.on()
C_LedOn ==
    /\ pc = "c_led_on"
    /\ led' = "on"
    /\ pc' = "c_sendto"
    /\ UNCHANGED <<ds_sensor, roms, onboard, wlanVars, aggVars, cycVars, histVars, auxVars>>

\* sock.sendto(json_data.encode(), (BROADCAST_IP, 5007))
C_SendTo ==
    /\ pc = "c_sendto"
    /\ \/ /\ Raise("sendto")
          /\ UNCHANGED sent
       \/ /\ sent' = sendto(sent, encode(json_data), BROADCAST_ADDR)
          /\ pc' = "sleep"
          /\ UNCHANGED raisedAt
    /\ UNCHANGED <<led, ds_sensor, roms, onboard, wlanVars, aggVars, measures, idx,
                   average_pond_temp, json_data, convCount, waited,
                   reads, pre_max, pre_min, auxVars>>

\* except: pass
Except ==
    /\ pc = "except"
    /\ pc' = AfterExcept
    /\ UNCHANGED <<led, ds_sensor, roms, onboard, wlanVars, aggVars, cycVars, histVars, auxVars>>

\* time.sleep(LOOP_SLEEP_SECS).  The cycle is over: what is recorded about it
\* starts afresh, and the locals of the cycle, which are all assigned again
\* before they are read, are cleared.
C_Sleep ==
    /\ pc = "sleep"
    /\ pc' = "loop_test"
    /\ measures' = << >>
    /\ idx' = 0
    /\ average_pond_temp' = None
    /\ json_data' = None
    /\ summary' = << >>
    /\ convCount' = 0
    /\ waited' = FALSE
    /\ sent' = << >>
    /\ reads' = << >>
    /\ UNCHANGED <<led, ds_sensor, roms, onboard, wlanVars, c_max, c_min,
                   raisedAt, pre_max, pre_min, auxVars>>

(* ---------------- specification ---------------- *)
\* the steps of the program
Step ==
    \/ Main_Start
    \/ Wlan_Begin
    \/ Wlan_Connect
    \/ Wlan_Poll
    \/ Wlan_Retry
    \/ Sock_Setup
    \/ Scan_Test
    \/ Scan
    \/ Onboard_Setup
    \/ Loop_Test
    \/ C_LedOff
    \/ C_Convert
    \/ C_Wait
    \/ Ext_Enter
    \/ Ext_Iter
    \/ Ext_Return
    \/ C_Onboard
    \/ C_Avg
    \/ C_MinMax
    \/ C_Dumps
    \/ C_LedOn
    \/ C_SendTo
    \/ Except
    \/ C_Sleep

Next == Step \/ LinkChange

Spec == Init /\ [][Next]_vars

\* the interpreter always runs the next statement; the access point owes nothing
FairSpec == Spec /\ WF_vars(Step)

(* ---------------- get_resolution on its own, lines 126-128 ---------------- *)
\* get_resolution(sensor, rom) called on a device whose scratchpad holds any
\* configuration byte
ResInit ==
    /\ pc = "get_resolution"
    /\ configByte \in 0..255
    /\ InitState

\* return sensor.read_scratch(rom)[4] & 0x60 >> 5
Res_Return ==
    /\ pc = "get_resolution"
    /\ resolution' = get_resolution(configByte)
    /\ pc' = "get_resolution_return"
    /\ UNCHANGED <<led, ds_sensor, roms, onboard, wlanVars, aggVars, cycVars, histVars,
                   avgVars, configByte>>

ResNext == Res_Return

ResSpec == ResInit /\ [][ResNext]_vars

(* ---------------- what is observed of a cycle ---------------- *)
\* the positions inside the try block and its except clause
CyclePcs ==
    {"c_convert", "c_wait", "ext_enter", "ext_loop", "c_onboard", "c_avg",
     "c_minmax", "c_dumps", "c_led_on", "c_sendto", "except"}

\* the cycle body is over: the loop is at time.sleep(LOOP_SLEEP_SECS)
CycleOver == pc = "sleep"

\* the record list a datagram carries
BatchOf(datagram) == datagram.data.bytes.text

Field(rec, k, v) == k \in DOMAIN rec /\ rec[k] = v

\* a Measurement of external_sensors
IsMeasurement(rec) == DOMAIN rec =
    {"type", "value", "sensor", "location", "resolution_raw", "resolution_bits", "alarm"}

\* the devices of the scan that are placed in the group "Pond", by position
PondPositions ==
    {j \in 1..Len(roms) : roms[j] \in {RomPondA, RomPondB}}

RECURSIVE SumReads(_)
SumReads(P) ==
    IF P = {} THEN 0
    ELSE LET j == CHOOSE k \in P : TRUE IN reads[j][1] + SumReads(P \ {j})

\* v is the arithmetic mean of this cycle's readings of the Pond devices, 0 if none
IsPondMean(v) ==
    IF PondPositions = {} THEN v = <<0, 1>>
    ELSE /\ PondPositions \subseteq 1..Len(reads)
         /\ v[2] > 0
         /\ v[1] * Cardinality(PondPositions) = SumReads(PondPositions) * v[2]

(* ---------------- C1 ---------------- *)
\* C1: a cycle hands exactly one datagram to the network when no step of its
\* body raised and none when a step raised; a datagram always carries the
\* complete batch of the cycle, never a partly built one.
C1_OneDatagramOrNone ==
    /\ Len(sent) <= 1
    /\ raisedAt # "none" => sent = << >>
    /\ CycleOver => Len(sent) = (IF raisedAt = "none" THEN 1 ELSE 0)
    /\ \A k \in 1..Len(sent) :
         /\ sent[k].data = encode(dumps(measures))
         /\ Len(BatchOf(sent[k])) = Len(roms) + 5

C1_Witness ==
    /\ CycleOver
    /\ raisedAt = "none"
    /\ Len(sent) = 1
    /\ Len(roms) = 2

(* ---------------- C2 ---------------- *)
\* C2: once the cycle loop is entered it never ends: every cycle that starts
\* reaches the inter-cycle sleep, also through the except clause, and every
\* sleep is followed by the start of another cycle.
C2_LoopNeverEnds ==
    /\ [](pc # "done")
    /\ (pc \in CyclePcs) ~> CycleOver
    /\ CycleOver ~> (pc = "c_convert")

C2_Witness ==
    /\ pc = "c_led_off"
    /\ raisedAt = "sendto"
    /\ led = "on"

(* ---------------- C3 ---------------- *)
\* C3: no cycle begins and no convert_temp is issued before a scan has
\* returned a device; a scan that returns the empty list leads back to the
\* loop test, which leads to another scan.
C3_NoCycleWithoutDevice ==
    /\ []((pc \in CyclePcs \/ convCount > 0) => Len(roms) >= 1)
    /\ [][(pc = "scan" /\ roms' = << >>) => pc' = "scan_test"]_vars
    /\ [][(pc = "scan_test" /\ roms = << >>) => pc' = "scan"]_vars

C3_Witness ==
    /\ pc = "scan"
    /\ ds_sensor # None
    /\ roms = << >>
    /\ convCount = 0

(* ---------------- C4 ---------------- *)
\* C4: a batch that is sent holds one Measurement per discovered device in
\* scan order, then the onboard record, then the avg_temp, max, min and
\* summary records, and nothing else.
C4_BatchOrder ==
    \A k \in 1..Len(sent) :
      LET b == BatchOf(sent[k])
          n == Len(roms)
      IN /\ Len(b) = n + 5
         /\ \A j \in 1..n :
              /\ IsMeasurement(b[j])
              /\ b[j].sensor = rom_to_hex(roms[j])
         /\ Field(b[n + 1], "location", "onboard")
         /\ Field(b[n + 2], "type", "avg_temp")
         /\ Field(b[n + 3], "type", "max")
         /\ Field(b[n + 4], "type", "min")
         /\ Field(b[n + 5], "type", "summary")

C4_Witness ==
    /\ Len(sent) = 1
    /\ Len(roms) = 2
    /\ roms[1] = RomPondB
    /\ roms[2] = RomPump

(* ---------------- C5 ---------------- *)
\* C5: the avg of the summary record and the value of the avg_temp record are
\* the arithmetic mean of the temperatures read in this cycle from the devices
\* placed in "Pond", and 0 when no discovered device is placed there.
C5_AverageOfGroup ==
    /\ summary # << >> => IsPondMean(summary.avg)
    /\ \A k \in 1..Len(sent) :
         LET b == BatchOf(sent[k])
         IN \A j \in 1..Len(b) :
              /\ Field(b[j], "type", "avg_temp") => IsPondMean(b[j].value)
              /\ Field(b[j], "type", "summary") => IsPondMean(b[j].avg)

C5_Witness ==
    /\ Len(sent) = 1
    /\ roms = <<RomPump, RomPondA>>
    /\ reads[1] # reads[2]
    /\ c_max # pre_max

(* ---------------- C6 ---------------- *)
\* C6: in every summary record min <= avg <= max.
C6_SummaryOrdered ==
    summary # << >> =>
        /\ summary.min[1] * summary.avg[2] <= summary.avg[1] * summary.min[2]
        /\ summary.avg[1] * summary.max[2] <= summary.max[1] * summary.avg[2]

C6_Witness ==
    /\ summary # << >>
    /\ PondPositions # {}
    /\ summary.min[1] * summary.avg[2] < summary.avg[1] * summary.min[2]
    /\ summary.avg[1] * summary.max[2] < summary.max[1] * summary.avg[2]

(* ---------------- C7 ---------------- *)
\* C7: once set, c_min never increases, c_max never decreases, and neither
\* goes back to None, whatever the cycles do.
C7_ExtremaMonotone ==
    [][/\ c_min # None =>
            (c_min' # None /\ c_min'[1] * c_min[2] <= c_min[1] * c_min'[2])
       /\ c_max # None =>
            (c_max' # None /\ c_max[1] * c_max'[2] <= c_max'[1] * c_max[2])]_vars

C7_Witness ==
    /\ pc = "c_dumps"
    /\ pre_min # None
    /\ c_min # pre_min
    /\ c_max = pre_max

(* ---------------- C8 ---------------- *)
\* C8: a Measurement has alarm true exactly when its value is below
\* LOW_ALARM_TEMP or above HIGH_ALARM_TEMP; a value on a threshold is not alarmed.
C8_AlarmStrict ==
    \A j \in 1..Len(measures) :
      IsMeasurement(measures[j]) =>
        LET v == measures[j].value
        IN measures[j].alarm <=>
             (v[1] < LOW_ALARM_TEMP * v[2] \/ v[1] > HIGH_ALARM_TEMP * v[2])

C8_Witness ==
    /\ Len(measures) >= 2
    /\ IsMeasurement(measures[1]) /\ IsMeasurement(measures[2])
    /\ measures[1].value = <<HIGH_ALARM_TEMP, 1>> /\ ~measures[1].alarm
    /\ measures[2].value = <<19, 1>> /\ measures[2].alarm

(* ---------------- C9 ---------------- *)
\* C9: from a raise of read_temp to the start of the next cycle no datagram
\* has been sent and c_min and c_max are those of the start of the failed
\* cycle and do not change; a cycle in which nothing raises, the one after a
\* failed cycle included, sends its datagram with the extrema taken over the
\* values it started with and its own average.
C9_BusFailureLeavesExtrema ==
    /\ [](raisedAt = "read_temp" =>
            (sent = << >> /\ c_min = pre_min /\ c_max = pre_max))
    /\ [][raisedAt = "read_temp" => (c_min' = c_min /\ c_max' = c_max)]_vars
    /\ []((CycleOver /\ raisedAt = "none") =>
            /\ Len(sent) = 1
            /\ summary # << >>
            /\ c_min = (IF pre_min = None THEN summary.avg
                        ELSE MinR(pre_min, summary.avg))
            /\ c_max = (IF pre_max = None THEN summary.avg
                        ELSE MaxR(pre_max, summary.avg))
            /\ summary.min = c_min
            /\ summary.max = c_max)

C9_Witness ==
    /\ CycleOver
    /\ raisedAt = "read_temp"
    /\ Len(measures) = 1
    /\ pre_min # None
    /\ pre_min # pre_max

(* ---------------- C10 ---------------- *)
\* C10: connect_to_wlan leaves its poll loop only by returning with the link
\* connected; while the link is not connected it goes on polling, however
\* many retries there have been; if the link becomes connected, that is comes
\* up and is not lost again, connect_to_wlan returns.
C10_ReturnsOnlyConnected ==
    /\ [][pc = "wlan_poll" =>
            pc' = (IF linkUp THEN "sock_setup" ELSE "wlan_retry")]_<<pc>>
    /\ [][pc = "wlan_retry" => pc' = "wlan_poll"]_<<pc>>
    /\ [][pc' = "sock_setup" => (pc = "wlan_poll" /\ linkUp /\ linkUp')]_<<pc>>
    /\ (<>[]linkUp) => <>(pc = "sock_setup")

C10_Witness ==
    /\ pc = "sock_setup"
    /\ linkUp
    /\ retry_count = MaxRetry

(* ---------------- C11 ---------------- *)
\* C11 as stated: every pass of the poll loop that finds the link not
\* connected issues the connect request again before the next poll.
C11_Original ==
    [][(pc = "wlan_retry" /\ pc' = "wlan_poll") => connectCount' = connectCount + 1]_vars

\* C11 as amended: the connect request is issued once, before the first poll;
\* a pass of the poll loop flashes the indicator, counts the retry and waits,
\* and issues no connect request.
C11_ConnectIssuedOnce ==
    /\ [](connectCount <= 1)
    /\ [](pc \in {"wlan_poll", "wlan_retry"} => connectCount = 1)
    /\ [][pc = "wlan_retry" => connectCount' = connectCount]_vars

C11_Witness ==
    /\ pc = "wlan_poll"
    /\ ~linkUp
    /\ retry_count = MaxRetry
    /\ connectCount = 1

(* ---------------- C12 ---------------- *)
\* the positions of the cycle loop
LoopPcs == CyclePcs \cup {"loop_test", "c_led_off", "sleep"}

\* C12: once the cycle loop is entered exactly one connect request has been
\* issued and none is issued any more, control never goes back into
\* connect_to_wlan nor out of the loop, also after a sendto that raised.
C12_LinkEstablishedOnce ==
    /\ [](pc \in LoopPcs => connectCount = 1)
    /\ [][(pc \in LoopPcs) => (connectCount' = connectCount /\ pc' \in LoopPcs)]_vars

C12_Witness ==
    /\ pc = "loop_test"
    /\ raisedAt = "sendto"
    /\ connectCount = 1

(* ---------------- C13 ---------------- *)
\* Idle 0, LinkConnecting 1 (up to the socket set-up that follows the return
\* of connect_to_wlan), SensorDiscovery 2, CycleRunning 3
Phase(p) ==
    CASE p = "main_start" -> 0
      [] p \in {"wlan_begin", "wlan_connect", "wlan_poll", "wlan_retry", "sock_setup"} -> 1
      [] p \in {"scan_test", "scan", "onboard_setup"} -> 2
      [] p \in LoopPcs -> 3
      [] OTHER -> 4

\* C13: main() goes through Idle, LinkConnecting, SensorDiscovery and
\* CycleRunning in this order and never back; discovery starts only with the
\* link connected, no scan is made before; a cycle runs only with the
\* discovery finished; CycleRunning is never left.
C13_PhaseOrder ==
    /\ [](Phase(pc) <= 3)
    /\ [][Phase(pc') = Phase(pc) \/ (Phase(pc) < 3 /\ Phase(pc') = Phase(pc) + 1)]_vars
    /\ [][(Phase(pc) = 1 /\ Phase(pc') = 2) => linkUp]_vars
    /\ [](Phase(pc) < 2 => (ds_sensor = None /\ roms = None))
    /\ [](Phase(pc) < 3 => (convCount = 0 /\ reads = << >> /\ c_max = None))
    /\ [](Phase(pc) = 3 => (ds_sensor # None /\ Len(roms) >= 1 /\ onboard # None))

C13_Witness ==
    /\ pc = "c_convert"
    /\ c_max # None
    /\ Len(roms) = 1
    /\ linkUp

(* ---------------- C14 ---------------- *)
\* C14: a temperature is read, or its read attempted, only in a cycle in which
\* convert_temp has been broadcast exactly once and the 750 ms wait that
\* follows it is over.
C14_ReadAfterConversion ==
    /\ convCount <= 1
    /\ waited => convCount = 1
    /\ (pc \in {"ext_enter", "ext_loop"} \/ reads # << >>) => (convCount = 1 /\ waited)

C14_Witness ==
    /\ pc = "ext_loop"
    /\ Len(reads) = 2
    /\ convCount = 1
    /\ waited

(* ---------------- C15 ---------------- *)
\* C15 as stated: within a cycle the indicator is on only once the batch has
\* been sent.
C15_Original ==
    (pc \in CyclePcs \cup {"sleep"} /\ led = "on") => sent # << >>

\* C15 as amended: the indicator is off from the start of the cycle up to
\* the encoding of the batch; it is switched on after the encoding and before
\* the send, so that it is on when sendto is called and stays on whether the
\* send succeeds or raises.
C15_IndicatorOnBeforeSend ==
    /\ pc \in {"c_convert", "c_wait", "ext_enter", "ext_loop", "c_onboard", "c_avg",
               "c_minmax", "c_dumps", "c_led_on"} => led = "off"
    /\ pc = "c_sendto" => (led = "on" /\ sent = << >>)
    /\ (pc \in CyclePcs \cup {"sleep"} /\ led = "on") => json_data # None
    /\ (sent # << >> \/ raisedAt = "sendto") => led = "on"

C15_Witness ==
    /\ pc = "c_sendto"
    /\ led = "on"
    /\ sent = << >>
    /\ json_data # None
    /\ Len(roms) = 1

(* ---------------- C16 ---------------- *)
\* C16: for every configuration byte 0..255 get_resolution returns the code
\* held in bits 5 and 6 of the byte, (byte & 0x60) >> 5.
C16_MaskedShift ==
    pc = "get_resolution_return" => resolution = (configByte \div 32) % 4

(* ---------------- C17 ---------------- *)
\* C17: every Measurement has resolution_bits = resolution_raw * 9 + 9, and
\* that number is a resolution of 9 to 12 bits.
C17_BitsInRange ==
    \A j \in 1..Len(measures) :
      IsMeasurement(measures[j]) =>
        /\ measures[j].resolution_bits = measures[j].resolution_raw * 9 + 9
        /\ measures[j].resolution_bits \in 9..12

(* ---------------- C18 ---------------- *)
\* C18 as stated, for the cycle that has just been sent: every Pond
\* temperature read in it lies between summary.min and summary.max.
C18_Original ==
    (CycleOver /\ raisedAt = "none" /\ summary # << >>) =>
        \A j \in PondPositions :
            Le(summary.min, reads[j]) /\ Le(reads[j], summary.max)

\* C18 as amended: c_min and c_max, and the min and max of the summary record,
\* are the least and the greatest of the Pond averages of all the cycles that
\* got as far as computing one, whether their batch was sent or not.
C18_ExtremaOfAverages ==
    /\ c_min = avg_lo
    /\ c_max = avg_hi
    /\ summary # << >> => (summary.min = avg_lo /\ summary.max = avg_hi)

C18_Witness ==
    /\ CycleOver
    /\ raisedAt = "none"
    /\ summary # << >>
    /\ pre_max # None
    /\ summary.min = avg_lo
    /\ \E j \in PondPositions : Lt(reads[j], summary.min)

(* ---------------- C19 ---------------- *)
\* C19: a cycle in which any call has raised, ujson.dumps and sock.sendto
\* included, has c_min and c_max equal to their values at its start.
C19_FailedCycleLeavesExtrema ==
    raisedAt # "none" => (c_min = pre_min /\ c_max = pre_max)

(* ---------------- C20 ---------------- *)
\* C20: whenever the main loop is in its inter-cycle sleep the indicator is
\* on, after a sent cycle and after a failed one alike.
C20_OnWhileSleeping ==
    pc = "sleep" => led = "on"

====
